---- MODULE Spec2Model ----
(***************************************************************************)
(* Weighted knowledge graph of notes, events, entities, tags and           *)
(* categories: the periodic weight jobs (decay, boost, prune), the writes  *)
(* of analysed relations, the hybrid search and the graph maintenance      *)
(* tools.                                                                  *)
(*                                                                         *)
(* Numbers.  Weights, confidences and scores are hundredths: 0.8 is 80.    *)
(* A stored edge weight is the exact rational n / 100^(d+1), kept as the   *)
(* pair [n, d]; d grows by one with every multiplication by 0.99.          *)
(***************************************************************************)
EXTENDS Integers, Sequences, FiniteSets, TLC

VARIABLES
    nodes,      \* the nodes of the graph store: records [label, key]
    fresh,      \* the nodes whose created_at lies within the last 7 days
    edges,      \* the relationships of the graph store: records, one per relationship
    ticks,      \* number of decay statements committed so far
    found,      \* the last retrieval: the request, the stores' replies, the list handed to
                \* the merge step and the response
    last,       \* the last operation: its name, arguments, whether it ended without an
                \* exception, the count it logged, the count of the same operation before it
    jobs,       \* the runs of the weight job that may overlap: for each run the statement
                \* it is in, the relationships its transaction has locked, their images
                \* before the transaction, and the relationship it has read and not yet set
    calls,      \* the foreground requests that may overlap (consolidations, incremental
                \* analyses): for each caller its position and its local variables
    graph_cache,\* the cached snapshot of the user's graph (user:{id}:relationships)
    sched       \* the scheduler: the hour, the jobs due in it, how often each ran in it,
                \* and what the last job run logged, ran and raised

vars == <<nodes, fresh, edges, ticks, found, last, jobs, calls, graph_cache, sched>>

----------------------------------------------------------------------------
(* Bounds *)

MaxDecay == 2

MaxEdges == 5

----------------------------------------------------------------------------
(* Constants of the program, in hundredths *)

DECAY_FACTOR == 99

BOOST_INCREMENT == 10

PRUNE_THRESHOLD == 10

DEFAULT_WEIGHT == 50

PREFERS_WEIGHT == 100

----------------------------------------------------------------------------
(* Weights *)

RECURSIVE Pow100(_)
Pow100(d) == IF d = 0 THEN 1 ELSE 100 * Pow100(d - 1)

NoWeight == [has |-> FALSE, n |-> 0, d |-> 0]

Weight(h) == [has |-> TRUE, n |-> h, d |-> 0]

\* a.n / 100^(a.d+1)  <  b.n / 100^(b.d+1), both brought to the larger exponent
WMax(a, b) == IF a.d > b.d THEN a.d ELSE b.d

WScaled(a, D) == a.n * Pow100(D - a.d)

WLess(a, b) == WScaled(a, WMax(a, b)) < WScaled(b, WMax(a, b))

WEq(a, b) == WScaled(a, WMax(a, b)) = WScaled(b, WMax(a, b))

\* r.weight * 0.99

\* a decay by the factor 0.9
WDecayTenth(w) == [has |-> TRUE, n |-> w.n * 90, d |-> w.d + 1]

WDecay(w) == [has |-> TRUE, n |-> w.n * DECAY_FACTOR, d |-> w.d + 1]

\* r.weight + 0.1, added k times
WBoost(w, k) == [has |-> TRUE, n |-> w.n + k * BOOST_INCREMENT * Pow100(w.d), d |-> w.d]

----------------------------------------------------------------------------
(* Nodes and relationships *)

Node(l, k) == [label |-> l, key |-> k]

\* a relationship: its ends, type and properties (weight, confidence, auto_generated,
\* reason), and its history: the weight it was created with (w0), the decay statements
\* (decays) and the boost rows (boosts) that have set its weight since
Edge(s, t, ty, w, c, a, r) ==
    [src |-> s, dst |-> t, type |-> ty, w |-> w, conf |-> c, auto |-> a, reason |-> r,
     w0 |-> w, decays |-> 0, boosts |-> 0]

NoConf == 0 - 1

NoReason == "-"

\* the relationships of es that a MERGE (s)-[:ty {props}]->(t) pattern matches
MatchRel(es, s, t, ty, w, c, a, r) ==
    {e \in es : /\ e.src = s /\ e.dst = t /\ e.type = ty
                /\ (w.has => (e.w.has /\ WEq(e.w, w)))
                /\ (c # NoConf => e.conf = c)
                /\ (a => e.auto)
                /\ (r # NoReason => e.reason = r)}

Ends(e) == {e.src, e.dst}

\* edges the program writes on a user's own action (registration, category preference)
UserAsserted(e) == e.type = "PREFERS"

\* edges the program writes from an analysis result
Automated(e) == e.type \in {"BELONGS_TO", "RELATED_TO", "TAGGED_WITH", "MENTIONS", "HAS_TAG"}

----------------------------------------------------------------------------
(* The three statements of the weight jobs *)

\* MATCH ()-[r]->() WHERE r.weight IS NOT NULL SET r.weight = r.weight * 0.99
DecayStatement(es) ==
    {IF e.w.has THEN [e EXCEPT !.w = WDecay(e.w), !.decays = @ + 1] ELSE e : e \in es}

\* rows of MATCH (u:User)-[:HAS_NOTE]->(n:Note) WHERE n recent
\*         MATCH (n)-[r:RELATED_TO]-(other:Note) that bind r to e
BoostRows(es, fr, e) ==
    {p \in es \X Ends(e) :
        LET h == p[1]
            n == p[2]
            other == IF e.src = n THEN e.dst ELSE e.src
        IN  /\ h.type = "HAS_NOTE" /\ h.src.label = "User" /\ h.dst = n
            /\ n.label = "Note" /\ n \in fr
            /\ e.type = "RELATED_TO"
            /\ other.label = "Note"}

\* ... SET r.weight = r.weight + 0.1, once per row; null + 0.1 is null
BoostStatement(es, fr) ==
    {IF e.w.has /\ BoostRows(es, fr, e) # {}
        THEN [e EXCEPT !.w = WBoost(e.w, Cardinality(BoostRows(es, fr, e))),
                       !.boosts = @ + Cardinality(BoostRows(es, fr, e))]
        ELSE e : e \in es}

\* r.weight < 0.1 (false for an edge without weight)

\* a threshold test that takes 0.1 itself as low
LowWeightOrEqual(e) == e.w.has /\ ~WLess(Weight(PRUNE_THRESHOLD), e.w)

LowWeight(e) == e.w.has /\ WLess(e.w, Weight(PRUNE_THRESHOLD))

\* MATCH ()-[r]->() WHERE r.weight < 0.1 DELETE r

\* a delete that removes one matching relationship per run
PruneStatementOne(es) ==
    IF \E e \in es : LowWeight(e) THEN es \ {CHOOSE e \in es : LowWeight(e)} ELSE es

PruneStatement(es) == {e \in es : ~LowWeight(e)}

----------------------------------------------------------------------------
(* Writing analysed relations *)

Rel(ty, tg, hw, w, r) == [type |-> ty, target_id |-> tg, hasw |-> hw, weight |-> w, reason |-> r]

\* relation.get("weight", 0.5)
RelWeight(rel) == IF rel.hasw THEN rel.weight ELSE DEFAULT_WEIGHT

\* MATCH (s) MATCH (t) MERGE (s)-[:ty {props}]->(t): no row when an end is missing,
\* nothing written when a relationship with these property values is there,
\* else a new relationship carrying exactly these properties
MergeRel(es, ns, s, t, ty, w, c, a, r) ==
    IF s \notin ns \/ t \notin ns THEN es
    ELSE IF MatchRel(es, s, t, ty, w, c, a, r) # {} THEN es
    ELSE es \cup {Edge(s, t, ty, w, c, a, r)}

\* one iteration of the loop of _create_note_relations
NoteRelStep(es, ns, note_id, rel) ==
    LET n == Node("Note", note_id)
        w == Weight(RelWeight(rel))
    IN  CASE rel.type = "category" ->
               MergeRel(es, ns, n, Node("Category", rel.target_id), "BELONGS_TO",
                        w, NoConf, FALSE, NoReason)
          [] rel.type = "event" ->
               MergeRel(es, ns, n, Node("Event", rel.target_id), "RELATED_TO",
                        w, NoConf, FALSE, rel.reason)
          [] rel.type = "note" ->
               MergeRel(es, ns, n, Node("Note", rel.target_id), "RELATED_TO",
                        w, NoConf, FALSE, rel.reason)
          [] OTHER -> es

\* one iteration of the loop of _create_event_relations
EventRelStep(es, ns, event_id, rel) ==
    LET e == Node("Event", event_id)
        w == Weight(RelWeight(rel))
    IN  CASE rel.type = "category" ->
               MergeRel(es, ns, e, Node("Category", rel.target_id), "BELONGS_TO",
                        w, NoConf, FALSE, NoReason)
          [] rel.type = "tag" ->
               MergeRel(es, ns, e, Node("Tag", rel.target_id), "TAGGED_WITH",
                        NoWeight, RelWeight(rel), TRUE, NoReason)
          [] rel.type = "event" ->
               MergeRel(es, ns, e, Node("Event", rel.target_id), "RELATED_TO",
                        w, NoConf, FALSE, rel.reason)
          [] rel.type = "note" ->
               MergeRel(es, ns, e, Node("Note", rel.target_id), "RELATED_TO",
                        w, NoConf, FALSE, rel.reason)
          [] OTHER -> es

\* for relation in relations: ...; the store raises at relation failAt (0: never)
RECURSIVE NoteRelLoop(_, _, _, _, _, _)
NoteRelLoop(es, ns, note_id, rels, i, failAt) ==
    IF i > Len(rels) \/ i = failAt THEN es
    ELSE NoteRelLoop(NoteRelStep(es, ns, note_id, rels[i]), ns, note_id, rels, i + 1, failAt)

RECURSIVE EventRelLoop(_, _, _, _, _, _)
EventRelLoop(es, ns, event_id, rels, i, failAt) ==
    IF i > Len(rels) \/ i = failAt THEN es
    ELSE EventRelLoop(EventRelStep(es, ns, event_id, rels[i]), ns, event_id, rels, i + 1, failAt)

----------------------------------------------------------------------------
(* Inputs *)

NoteIds == {"1"}

EventIds == {"1"}

\* what the analysis of a note may return for one relation: with and without a
\* weight, at and above the prune threshold, for a present and an absent target, of
\* a known and an unknown type
NoteRelations ==
    {Rel("category", "1", FALSE, 0, ""),
     Rel("category", "2", TRUE, 90, ""),
     Rel("note", "2", TRUE, 10, ""),
     Rel("note", "2", TRUE, 90, ""),
     Rel("note", "2", TRUE, 90, "again"),
     Rel("event", "1", TRUE, 10, ""),
     Rel("entity", "1", TRUE, 90, "")}

\* what the analysis of an event may return for one relation
EventRelations ==
    {Rel("category", "1", TRUE, 90, ""),
     Rel("tag", "1", TRUE, 90, ""),
     Rel("event", "1", TRUE, 90, ""),
     Rel("note", "2", TRUE, 10, ""),
     Rel("entity", "1", TRUE, 90, "")}

\* relations that come in one list with another relation
Repeated == {Rel("note", "2", TRUE, 90, ""), Rel("note", "2", TRUE, 10, "")}

Lists(rels) ==
    {<<>>} \cup {<<r>> : r \in rels} \cup {<<r, q>> : r \in Repeated, q \in Repeated}

----------------------------------------------------------------------------
(* Operations on the graph *)

\* prev: the count the operation before logged when it was the same operation and
\* both ended without an exception, else -1
Done(op, ok, n, id, arg) ==
    [op |-> op, ok |-> ok, n |-> n, id |-> id, arg |-> arg,
     prev |-> IF ok /\ last.ok /\ last.op = op THEN last.n ELSE 0 - 1]

\* ScheduledTasks.update_relation_weights: the decay statement, then the boost
\* statement, each in its own session; an exception ends the job
update_relation_weights(outcome) ==
    /\ ticks < MaxDecay
    /\ LET decayed == IF outcome = "decay_fails" THEN edges ELSE DecayStatement(edges)
           boosted == IF outcome = "ok" THEN BoostStatement(decayed, fresh) ELSE decayed
       IN  /\ edges' = boosted
           /\ ticks' = IF outcome = "decay_fails" THEN ticks ELSE ticks + 1
           /\ last' = Done("update_relation_weights", outcome = "ok",
                            IF outcome = "decay_fails" THEN 0
                            ELSE Cardinality({e \in edges : e.w.has}), "", <<>>)
    /\ UNCHANGED <<nodes, fresh, found, jobs, calls, graph_cache, sched>>

\* ScheduledTasks._cleanup_low_weight_relations
_cleanup_low_weight_relations(outcome) ==
    /\ edges' = IF outcome = "ok" THEN PruneStatement(edges) ELSE edges
    /\ last' = Done("_cleanup_low_weight_relations", outcome = "ok",
                     IF outcome = "ok" THEN Cardinality(edges \ PruneStatement(edges)) ELSE 0,
                     "", <<>>)
    /\ UNCHANGED <<nodes, fresh, ticks, found, jobs, calls, graph_cache, sched>>

\* NoteService._create_note_relations(note_id, relations)
_create_note_relations(note_id, relations, failAt) ==
    /\ Cardinality(edges) + Len(relations) <= MaxEdges
    /\ edges' = NoteRelLoop(edges, nodes, note_id, relations, 1, failAt)
    /\ last' = Done("_create_note_relations", failAt = 0, Cardinality(edges' \ edges),
                     note_id, relations)
    /\ UNCHANGED <<nodes, fresh, ticks, found, jobs, calls, graph_cache, sched>>

\* NoteService._create_event_relations(event_id, relations)
_create_event_relations(event_id, relations, failAt) ==
    /\ Cardinality(edges) + Len(relations) <= MaxEdges
    /\ edges' = EventRelLoop(edges, nodes, event_id, relations, 1, failAt)
    /\ last' = Done("_create_event_relations", failAt = 0, Cardinality(edges' \ edges),
                     event_id, relations)
    /\ UNCHANGED <<nodes, fresh, ticks, found, jobs, calls, graph_cache, sched>>

----------------------------------------------------------------------------
(* The graph after a user registered with a preferred category and the notes
   were synchronised; note 1 is younger than 7 days, note 2 is older *)

NoSearch ==
    [op |-> "init", done |-> TRUE, search_type |-> "", strategy |-> "", limit |-> 0,
     lex |-> <<>>, vec |-> <<>>, gra |-> <<>>, input |-> <<>>, results |-> <<>>,
     total |-> 0, error |-> FALSE, asked |-> "", ran |-> {}]

\* the scheduler after start(): hour 0, no job due yet
NoSched == [running |-> TRUE, hour |-> 0, due |-> {},
            runs |-> [weights |-> 0, cleanup |-> 0],
            ran |-> {}, logged |-> 0, raised |-> FALSE]

MaxCallers == 2

Callers == 1..MaxCallers

\* a caller that has not begun: pc is its position, ids the note ids its search
\* returned, graph the graph it read, relations and tags what the agents returned to
\* it, wrote the edges it has written, first whether no other call was under way
\* when it began, lenient the server's setting for a MERGE with a null node
NoCall == [pc |-> "idle", ids |-> <<>>, graph |-> [nodes |-> {}, edges |-> {}],
           relations |-> <<>>, tags |-> <<>>, wrote |-> {}, first |-> FALSE,
           lenient |-> FALSE]

NoCalls == [c \in Callers |-> NoCall]

\* redis_db.get gives None
NoCache == [has |-> FALSE, graph |-> {}]

MaxRuns == 2

Runs == 1..MaxRuns

\* a run that has not started: pc is the statement the run is in, commits the number
\* of its statements that have committed, overlap whether another run was in a
\* statement when it started
Idle == [pc |-> "idle", locked |-> {}, before |-> {}, reading |-> {}, commits |-> 0,
         overlap |-> FALSE]

NoJobs == [r \in Runs |-> Idle]

U1 == Node("User", "1")

N1 == Node("Note", "1")

N2 == Node("Note", "2")

InitEdges ==
    {Edge(U1, Node("Category", "1"), "PREFERS", Weight(PREFERS_WEIGHT), NoConf, FALSE, NoReason),
     Edge(U1, N1, "HAS_NOTE", NoWeight, NoConf, FALSE, NoReason),
     Edge(U1, N2, "HAS_NOTE", NoWeight, NoConf, FALSE, NoReason)}

InitGraph ==
    /\ nodes = {U1, N1, N2, Node("Event", "1"), Node("Category", "1"), Node("Tag", "1")}
    /\ fresh = {N1}
    /\ edges = InitEdges
    /\ ticks = 0
    /\ last = [op |-> "init", ok |-> TRUE, n |-> 0, id |-> "", arg |-> <<>>, prev |-> 0 - 1]
    /\ jobs = NoJobs
    /\ calls = NoCalls
    /\ graph_cache = NoCache
    /\ sched = NoSched

Init == InitGraph /\ found = NoSearch

Next ==
    \/ \E o \in {"ok", "decay_fails", "boost_fails"} : update_relation_weights(o)
    \/ \E o \in {"ok", "fails"} : _cleanup_low_weight_relations(o)
    \/ \E id \in NoteIds, rs \in Lists(NoteRelations), f \in 0..2 :
          f <= Len(rs) /\ _create_note_relations(id, rs, f)
    \/ \E id \in EventIds, rs \in Lists(EventRelations), f \in 0..2 :
          f <= Len(rs) /\ _create_event_relations(id, rs, f)

Spec == Init /\ [][Next]_vars

----------------------------------------------------------------------------
(* Properties of the weight jobs and of the relation writes *)

RECURSIVE Pow99(_)
Pow99(k) == IF k = 0 THEN 1 ELSE 99 * Pow99(k - 1)

\* weight below 0.1
BelowTenth(e) == e.w.has /\ e.w.n < 10 * Pow100(e.w.d)

\* weight exactly 0.1
ExactlyTenth(e) == e.w.has /\ e.w.n = 10 * Pow100(e.w.d)

SameTriple(a, b) == a.src = b.src /\ a.dst = b.dst /\ a.type = b.type

Pruned == last.op = "_cleanup_low_weight_relations" /\ last.ok

\* C1: an edge that is not auto-generated (the user's PREFERS edge, written without
\* the auto_generated flag) still exists with the weight it was created with after
\* any sequence of decay, boost and prune runs.
C1_UserEdgesUntouched ==
    \A e0 \in InitEdges :
        (UserAsserted(e0) /\ ~e0.auto) =>
            \E e \in edges : SameTriple(e, e0) /\ e.w.has /\ WEq(e.w, e0.w)

\* C2: an automated edge created with weight w0 that N decay statements and no boost
\* have touched weighs w0 * 0.99^N, and an automated edge created without a weight
\* has none.
C2_DecayGeometric ==
    \A e \in edges :
        Automated(e) =>
            /\ (e.w0.has /\ e.boosts = 0) =>
                  /\ e.w.has
                  /\ WEq(e.w, [has |-> TRUE, n |-> e.w0.n * Pow99(e.decays), d |-> e.decays])
            /\ ~e.w0.has => ~e.w.has

C2_Witness ==
    /\ \E e \in edges : Automated(e) /\ e.w0.has /\ e.boosts = 0 /\ e.decays >= 2
    /\ \E e \in edges : Automated(e) /\ ~e.w.has /\ ticks >= 2

\* C3: a prune run leaves no automated edge with weight below 0.1 and keeps every
\* edge whose weight is 0.1 or more, or that has no weight.
C3_PruneBelowTenth ==
    [][(last'.op = "_cleanup_low_weight_relations" /\ last'.ok) =>
          /\ \A e \in edges' : Automated(e) => ~BelowTenth(e)
          /\ \A e \in edges : ~BelowTenth(e) => e \in edges']_vars

C3_Witness ==
    /\ Pruned /\ last.n >= 1
    /\ \E e \in edges : Automated(e) /\ ExactlyTenth(e)
    /\ \E e \in edges : ~e.w.has

\* C4: a prune run that directly follows a prune run deletes nothing and leaves the
\* graph as the first run left it.
C4_PruneIdempotent ==
    [][(Pruned /\ last'.op = "_cleanup_low_weight_relations" /\ last'.ok) =>
          (edges' = edges /\ last'.n = 0)]_vars

C4_Witness == Pruned /\ last.prev >= 1 /\ last.n = 0

\* the relationship a relation of a note (kind "note") or of an event asks for
AskedEnds(kind, id, rel) ==
    [src  |-> Node(IF kind = "note" THEN "Note" ELSE "Event", id),
     dst  |-> Node(CASE rel.type = "category" -> "Category"
                     [] rel.type = "event" -> "Event"
                     [] rel.type = "note" -> "Note"
                     [] OTHER -> "Tag", rel.target_id),
     type |-> CASE rel.type = "category" -> "BELONGS_TO"
                [] rel.type = "tag" -> "TAGGED_WITH"
                [] OTHER -> "RELATED_TO"]

\* the relation types written with a weight property (an event's tag is written
\* with a confidence)
WritesWeight(kind, rel) == rel.type \in {"category", "event", "note"}

\* C5: writing a relation for a (source, target, type) that has one edge, still at
\* the weight w1 it was written with, leaves exactly one edge of that type between
\* the two nodes, and its weight is the larger of w1 and the weight written.
C5_UpsertKeepsOneEdge ==
    [][\A kind \in {"note", "event"} :
          (/\ last'.op = (IF kind = "note" THEN "_create_note_relations"
                                            ELSE "_create_event_relations")
           /\ last'.ok /\ Len(last'.arg) = 1 /\ WritesWeight(kind, last'.arg[1])) =>
          LET rel == last'.arg[1]
              ask == AskedEnds(kind, last'.id, rel)
              was == {e \in edges : SameTriple(e, ask)}
              now == {e \in edges' : SameTriple(e, ask)}
              w2  == Weight(IF rel.hasw THEN rel.weight ELSE 50)
          IN  (Cardinality(was) = 1 /\ \A o \in was : o.w.has /\ o.decays = 0 /\ o.boosts = 0) =>
                  /\ Cardinality(now) = 1
                  /\ \A o \in was, e \in now :
                        e.w.has /\ WEq(e.w, IF WLess(o.w, w2) THEN w2 ELSE o.w)]_vars

\* the confidence an edge was written with: its weight property, or its confidence
\* property, or 0 when it has neither
WrittenConfidence(e) ==
    IF e.w0.has THEN e.w0.n ELSE IF e.conf # NoConf THEN e.conf ELSE 0

\* C16: no edge is written from a relation proposal whose confidence is below 0.6 or
\* that carries no confidence: every edge a relation write adds has a confidence of
\* 0.6 or more, and it comes from a proposal that carried one.
C16_LowConfidenceDiscarded ==
    [][(last'.op \in {"_create_note_relations", "_create_event_relations"}) =>
          \A e \in edges' \ edges :
              /\ WrittenConfidence(e) >= 60
              /\ \E i \in 1..Len(last'.arg) :
                    last'.arg[i].hasw /\ last'.arg[i].weight = WrittenConfidence(e)]_vars

----------------------------------------------------------------------------
(* The two scheduled jobs over many ticks.  The weight job runs every hour
   (IntervalTrigger(hours=1)) and the cleanup every day (CronTrigger(hour=3)).
   The exact weight w0 * 0.99^N does not fit a machine integer for N > 4, so
   here the product is kept to six decimals, rounded down, as the pair [n, 2]
   (n millionths); the store keeps a double, whose product differs from the
   exact one by less than that. *)

MaxTicks == 230

\* r.weight * 0.99, to six decimals
WDecayRounded(w) ==
    [has |-> TRUE, n |-> (WScaled(w, 2) * DECAY_FACTOR) \div 100, d |-> 2]

\* MATCH ()-[r]->() WHERE r.weight IS NOT NULL SET r.weight = r.weight * 0.99
HourlyDecayStatement(es) ==
    {IF e.w.has THEN [e EXCEPT !.w = WDecayRounded(e.w), !.decays = @ + 1] ELSE e : e \in es}

\* duration('P7D') in hourly ticks
RECENT_HOURS == 168

\* n.created_at > datetime() - duration('P7D'), t hours after the notes of fr were
\* created
Recent(fr, t) == IF t < RECENT_HOURS THEN fr ELSE {}

\* the hourly job: ScheduledTasks.update_relation_weights
hourly_update_relation_weights(outcome) ==
    /\ ticks < MaxTicks
    /\ LET decayed == IF outcome = "decay_fails" THEN edges ELSE HourlyDecayStatement(edges)
           boosted == IF outcome = "ok" THEN BoostStatement(decayed, Recent(fresh, ticks)) ELSE decayed
       IN  /\ edges' = boosted
           /\ ticks' = IF outcome = "decay_fails" THEN ticks ELSE ticks + 1
           /\ last' = Done("update_relation_weights", outcome = "ok",
                            IF outcome = "decay_fails" THEN 0
                            ELSE Cardinality({e \in edges : e.w.has}), "", <<>>)
    /\ UNCHANGED <<nodes, fresh, found, jobs, calls, graph_cache, sched>>

\* the relations the analysis of note 1 and of event 1 returned before the first tick
ExpiryNoteLists == {<<>>} \cup {<<r>> : r \in NoteRelations}

ExpiryEventLists == {<<>>} \cup {<<r>> : r \in EventRelations}

InitExpiry ==
    /\ nodes = {U1, N1, N2, Node("Event", "1"), Node("Category", "1"), Node("Tag", "1")}
    /\ fresh = {N1}
    /\ \E nr \in ExpiryNoteLists, er \in ExpiryEventLists :
          edges = EventRelLoop(NoteRelLoop(InitEdges, nodes, "1", nr, 1, 0),
                               nodes, "1", er, 1, 0)
    /\ ticks = 0
    /\ last = [op |-> "init", ok |-> TRUE, n |-> 0, id |-> "", arg |-> <<>>, prev |-> 0 - 1]
    /\ found = NoSearch
    /\ jobs = NoJobs
    /\ calls = NoCalls
    /\ graph_cache = NoCache
    /\ sched = NoSched

\* (a failing boost statement is left to Spec: over MaxTicks ticks it gives every
\* boosted edge 2^MaxTicks weights)
NextExpiry ==
    \/ \E o \in {"ok", "decay_fails"} : hourly_update_relation_weights(o)
    \/ \E o \in {"ok", "fails"} : _cleanup_low_weight_relations(o)

\* the scheduler fires both jobs again and again, and the store answers
SpecExpiry ==
    /\ InitExpiry /\ [][NextExpiry]_vars
    /\ WF_vars(hourly_update_relation_weights("ok"))
    /\ WF_vars(_cleanup_low_weight_relations("ok"))

\* an automated edge written with weight 0.9 and never boosted outlives every prune
\* run of its first 100 ticks
SurvivesHundredTicks ==
    [][(last'.op = "_cleanup_low_weight_relations") =>
          \A e \in edges :
              (Automated(e) /\ e.w0 = Weight(90) /\ e.boosts = 0 /\ e.decays <= 100) =>
                  e \in edges']_vars

\* a prune run deletes every edge whose weight is below 0.1
ExpiredThenPruned ==
    [][(last'.op = "_cleanup_low_weight_relations" /\ last'.ok) =>
          \A e \in edges : BelowTenth(e) => e \notin edges']_vars

\* at some time every automated edge still in the graph has been boosted
UnboostedExpire == <>(\A e \in edges : Automated(e) => e.boosts > 0)

\* C18: an automated edge written with weight 0.9 and never boosted is deleted by no
\* prune run during its first 100 hourly ticks; a prune run deletes every edge whose
\* weight has fallen below 0.1; and with both jobs scheduled fairly every automated
\* edge that is never boosted is deleted at some time.
C18_DecayThenExpire == SurvivesHundredTicks /\ ExpiredThenPruned /\ UnboostedExpire

\* C19: after any sequence of decay and boost runs over edges written with a weight
\* of at most 5.0, no edge weighs more than 5.0 (the boost is clamped to the cap).
C19_WeightCapped == \A e \in edges : e.w.has => ~WLess(Weight(500), e.w)

----------------------------------------------------------------------------
(* Overlapping runs of the weight job.  Each statement of a run is one
   transaction of the store.  For SET r.weight = r.weight * 0.99 (and + 0.1) the
   store takes the write lock of r before it reads r.weight, and a transaction
   keeps its locks until it commits or is rolled back. *)

\* what identifies a relationship while its weight changes
EdgeKey(e) == [src |-> e.src, dst |-> e.dst, type |-> e.type, reason |-> e.reason, w0 |-> e.w0]

\* the locks the transactions of the other runs hold
Held(js, r) == UNION {js[q].locked : q \in Runs \ {r}}

\* a store that hands a lock out whoever holds it
LockFreeAlways(js, r, k) == TRUE

LockFree(js, r, k) == k \notin Held(js, r)

\* the relationships a statement sets: those of the MATCH of the decay statement, or
\* of the boost statement
StatementRows(pc, es, fr) ==
    IF pc = "decay" THEN {e \in es : e.w.has}
    ELSE {e \in es : e.w.has /\ BoostRows(es, fr, e) # {}}

\* the relationship cur after the SET of the statement, computed from the weight read
StatementSet(pc, es, fr, read, cur) ==
    IF pc = "decay" THEN [cur EXCEPT !.w = WDecay(read.w), !.decays = @ + 1]
    ELSE [cur EXCEPT !.w = WBoost(read.w, Cardinality(BoostRows(es, fr, cur))),
                     !.boosts = @ + Cardinality(BoostRows(es, fr, cur))]

\* the relationships as they were before the transaction of a run touched them
RolledBack(es, job) ==
    {IF \E b \in job.before : EdgeKey(b) = EdgeKey(e)
        THEN CHOOSE b \in job.before : EdgeKey(b) = EdgeKey(e)
        ELSE e : e \in es}

\* a run of update_relation_weights starts: its first statement is the decay
run_start(r) ==
    /\ jobs[r].pc = "idle"
    /\ jobs' = [jobs EXCEPT ![r] = [Idle EXCEPT !.pc = "decay",
                  !.overlap = \E q \in Runs \ {r} : jobs[q].pc \in {"decay", "boost"}]]
    /\ UNCHANGED <<nodes, fresh, edges, ticks, found, last, calls, graph_cache, sched>>

\* the statement of run r comes to relationship e: lock it, then read its weight
row_lock_read(r, e) ==
    /\ jobs[r].pc \in {"decay", "boost"}
    /\ jobs[r].reading = {}
    /\ e \in StatementRows(jobs[r].pc, edges, fresh)
    /\ EdgeKey(e) \notin jobs[r].locked
    /\ LockFree(jobs, r, EdgeKey(e))
    /\ jobs' = [jobs EXCEPT ![r].locked = @ \cup {EdgeKey(e)},
                            ![r].before = @ \cup {e},
                            ![r].reading = {e}]
    /\ UNCHANGED <<nodes, fresh, edges, ticks, found, last, calls, graph_cache, sched>>

\* ... and set its weight from the weight read
row_write(r) ==
    /\ jobs[r].reading # {}
    /\ LET read == CHOOSE e \in jobs[r].reading : TRUE
           cur  == CHOOSE e \in edges : EdgeKey(e) = EdgeKey(read)
       IN  edges' = (edges \ {cur}) \cup {StatementSet(jobs[r].pc, edges, fresh, read, cur)}
    /\ jobs' = [jobs EXCEPT ![r].reading = {}]
    /\ UNCHANGED <<nodes, fresh, ticks, found, last, calls, graph_cache, sched>>

\* the statement has set every relationship it matched: its transaction commits, and
\* the run goes on to the boost statement or ends
statement_commit(r) ==
    /\ jobs[r].pc \in {"decay", "boost"}
    /\ jobs[r].reading = {}
    /\ \A e \in StatementRows(jobs[r].pc, edges, fresh) : EdgeKey(e) \in jobs[r].locked
    /\ jobs' = [jobs EXCEPT ![r].pc = IF @ = "decay" THEN "boost" ELSE "done",
                            ![r].locked = {}, ![r].before = {}, ![r].commits = @ + 1]
    /\ last' = IF jobs[r].pc = "boost"
                  THEN Done("update_relation_weights", TRUE,
                            Cardinality({e \in edges : e.w.has}), "", <<>>)
                  ELSE last
    /\ UNCHANGED <<nodes, fresh, edges, ticks, found, calls, graph_cache, sched>>

\* the store ends the transaction with an error (a deadlock it detected, a lost
\* connection): the statement is rolled back, the exception ends the run
statement_abort(r) ==
    /\ jobs[r].pc \in {"decay", "boost"}
    /\ edges' = RolledBack(edges, jobs[r])
    /\ jobs' = [jobs EXCEPT ![r].pc = "failed", ![r].locked = {}, ![r].before = {},
                            ![r].reading = {}]
    /\ last' = Done("update_relation_weights", FALSE, 0, "", <<>>)
    /\ UNCHANGED <<nodes, fresh, ticks, found, calls, graph_cache, sched>>

InitOverlap == InitExpiry

NextOverlap ==
    \E r \in Runs :
        \/ run_start(r)
        \/ \E e \in edges : row_lock_read(r, e)
        \/ row_write(r)
        \/ statement_commit(r)
        \/ statement_abort(r)

SpecOverlap == InitOverlap /\ [][NextOverlap]_vars

\* the weights that nd decays and nb boost rows, one after the other in any order,
\* make of w
RECURSIVE Serial(_, _, _)
Serial(w, nd, nb) ==
    IF nd = 0 /\ nb = 0 THEN {w}
    ELSE (IF nd > 0 THEN Serial(WDecay(w), nd - 1, nb) ELSE {})
         \cup (IF nb > 0 THEN Serial(WBoost(w, 1), nd, nb - 1) ELSE {})

\* no run is in a statement
Quiet == \A r \in Runs : jobs[r].pc \in {"idle", "done", "failed"}

\* the runs whose decay statement, and whose boost statement, committed
Decayed == {r \in Runs : jobs[r].commits >= 1}

Boosted == {r \in Runs : jobs[r].commits = 2}

\* C20: when the overlapping runs have ended, every edge has taken one decay from each
\* committed decay statement and its boost rows from each committed boost statement
\* (no update is lost), and its weight is what these steps give in some serial order.
C20_SerialWeights ==
    Quiet =>
        \A e \in edges :
            e.w.has =>
                /\ e.decays = Cardinality(Decayed)
                /\ e.boosts = Cardinality(BoostRows(edges, fresh, e)) * Cardinality(Boosted)
                /\ \E s \in Serial(e.w0, e.decays, e.boosts) : WEq(e.w, s)

C20_Witness ==
    /\ \A r \in Runs : jobs[r].pc = "done"
    /\ \E r \in Runs : jobs[r].overlap
    /\ \E e \in edges : e.w.has /\ e.decays = MaxRuns /\ e.boosts = MaxRuns

----------------------------------------------------------------------------
(* Retrieval: the three sub-searches, the merge step and search.  Scores are in
   hundredths.  A result list is a sequence of records [id, score, source_type].
   A behaviour is one call: the initial state holds its arguments and the replies
   the stores give to it, the action is the call. *)

MaxLimit == 2
MaxResults == 3

FULLTEXT_SCORE == 80
GRAPH_SCORE == 70
SIMILARITY_THRESHOLD == 60

SearchResult(id, score, source_type) == [id |-> id, score |-> score, source_type |-> source_type]

\* str() of a row id
Str(i) == <<"1", "2", "3", "4">>[i]

\* s[:k]
Slice(s, k) ==
    IF k >= 0 THEN SubSeq(s, 1, IF k < Len(s) THEN k ELSE Len(s))
    ELSE SubSeq(s, 1, IF Len(s) + k > 0 THEN Len(s) + k ELSE 0)

\* sorted(..., key=score, reverse=True): stable, equal scores keep their order
RECURSIVE InsertByScore(_, _)
InsertByScore(s, r) ==
    IF s = <<>> THEN <<r>>
    ELSE IF Head(s).score >= r.score THEN <<Head(s)>> \o InsertByScore(Tail(s), r)
    ELSE <<r>> \o s

RECURSIVE Sorted(_)
Sorted(s) ==
    IF s = <<>> THEN <<>> ELSE InsertByScore(Sorted(SubSeq(s, 1, Len(s) - 1)), s[Len(s)])

\* a dict that keeps the first entry of an id
PutFirst(d, r) ==
    IF \E k \in 1..Len(d) : d[k].id = r.id THEN d ELSE Append(d, r)

\* result_dict[result.id] = result when the id is new or the score is higher; a
\* dict keeps the position of the first insertion of a key
Put(d, r) ==
    IF \E k \in 1..Len(d) : d[k].id = r.id
        THEN [k \in 1..Len(d) |-> IF d[k].id = r.id /\ r.score > d[k].score THEN r ELSE d[k]]
        ELSE Append(d, r)

RECURSIVE result_dict(_)
result_dict(results) ==
    IF results = <<>> THEN <<>>
    ELSE Put(result_dict(SubSeq(results, 1, Len(results) - 1)), results[Len(results)])

\* a merge step that cuts the list before it sorts it
_deduplicate_cut_sort(results, limit) == Sorted(Slice(result_dict(results), limit))

_deduplicate_and_sort(results, limit) == Slice(Sorted(result_dict(results)), limit)

Rows(ids, score, source_type) ==
    [k \in 1..Len(ids) |-> SearchResult(ids[k], score, source_type)]

\* reply of the relational store: ok, and the matching rows of notes and of events
_fulltext_search(reply, limit) ==
    IF ~reply.ok THEN <<>>
    ELSE Rows([k \in 1..Len(Slice(reply.notes, limit)) |-> Str(reply.notes[k])],
              FULLTEXT_SCORE, "note")
         \o Rows([k \in 1..Len(Slice(reply.events, limit)) |-> Str(reply.events[k])],
                 FULLTEXT_SCORE, "event")

AboveThreshold(item) == item.score > SIMILARITY_THRESHOLD

\* reply of the embedding provider and the cache: ok, whether the query has an
\* embedding, and the cached items, each with its similarity to the query
_vector_search(reply, limit) ==
    IF ~reply.ok THEN <<>>
    ELSE IF ~reply.embedding THEN <<>>
    ELSE Slice(Sorted(SelectSeq(reply.cache, AboveThreshold)), limit)

RECURSIVE GraphRows(_, _)
GraphRows(entities, limit) ==
    IF entities = <<>> THEN <<>>
    ELSE Rows(Slice(Head(entities).notes, limit), GRAPH_SCORE, "note")
         \o Rows(Slice(Head(entities).events, limit), GRAPH_SCORE, "event")
         \o GraphRows(Tail(entities), limit)

\* reply of the entity extractor and the graph store: ok, and for each entity of the
\* query the ids of the matching notes and events
_graph_search(reply, limit) ==
    IF ~reply.ok THEN <<>> ELSE GraphRows(reply.entities, limit)

\* analyze_query answers "hybrid" when the analysis fails
Strategy(search_type, strategy) == IF search_type = "auto" THEN strategy ELSE search_type

\* the sub-searches search runs for the search type ty
SubSearches(ty) ==
    {name \in {"fulltext", "vector", "graph"} : ty \in {name, "hybrid"}}

\* the list search hands to the merge step
Extended(ty, limit, lex, vec, gra) ==
    (IF ty \in {"fulltext", "hybrid"} THEN _fulltext_search(lex, limit) ELSE <<>>)
    \o (IF ty \in {"vector", "hybrid"} THEN _vector_search(vec, limit) ELSE <<>>)
    \o (IF ty \in {"graph", "hybrid"} THEN _graph_search(gra, limit) ELSE <<>>)

Response(ty, results, error) ==
    [search_type |-> ty, results |-> results, total |-> Len(results), error |-> error]

\* a search in which a sub-search that fails raises to search's own handler
SearchAborting(search_type, strategy, limit, lex, vec, gra) ==
    LET ty == Strategy(search_type, strategy)
    IN  IF \/ ty \in {"fulltext", "hybrid"} /\ ~lex.ok
           \/ ty \in {"vector", "hybrid"} /\ ~vec.ok
           \/ ty \in {"graph", "hybrid"} /\ ~gra.ok
        THEN Response(ty, <<>>, TRUE)
        ELSE Response(ty, _deduplicate_and_sort(Extended(ty, limit, lex, vec, gra), limit), FALSE)

\* the response of search
SearchResponse(search_type, strategy, limit, lex, vec, gra) ==
    LET ty == Strategy(search_type, strategy)
    IN  Response(ty, _deduplicate_and_sort(Extended(ty, limit, lex, vec, gra), limit), FALSE)

Lex(ok, notes, events) == [ok |-> ok, notes |-> notes, events |-> events]
LexReplies ==
    {Lex(FALSE, <<>>, <<>>), Lex(TRUE, <<>>, <<>>), Lex(TRUE, <<1>>, <<>>),
     Lex(TRUE, <<2, 1>>, <<>>), Lex(TRUE, <<1>>, <<1>>), Lex(TRUE, <<3, 4>>, <<2>>)}

Vec(ok, embedding, cache) == [ok |-> ok, embedding |-> embedding, cache |-> cache]
VecReplies ==
    {Vec(FALSE, FALSE, <<>>), Vec(TRUE, FALSE, <<>>), Vec(TRUE, TRUE, <<>>),
     Vec(TRUE, TRUE, <<SearchResult("1", 90, "note")>>),
     Vec(TRUE, TRUE, <<SearchResult("1", 60, "note")>>),
     Vec(TRUE, TRUE, <<SearchResult("2", 80, "note"), SearchResult("1", 80, "note")>>),
     Vec(TRUE, TRUE, <<SearchResult("3", 50, "note"), SearchResult("2", 70, "event")>>),
     Vec(TRUE, TRUE, <<SearchResult("1", 70, "note"), SearchResult("3", 90, "note"),
                       SearchResult("2", 61, "note")>>)}

Ent(notes, events) == [notes |-> notes, events |-> events]
Gra(ok, entities) == [ok |-> ok, entities |-> entities]
GraReplies ==
    {Gra(FALSE, <<>>), Gra(TRUE, <<>>), Gra(TRUE, <<Ent(<<"1">>, <<>>)>>),
     Gra(TRUE, <<Ent(<<"3", "2">>, <<>>)>>), Gra(TRUE, <<Ent(<<"4">>, <<"1">>)>>),
     Gra(TRUE, <<Ent(<<"2">>, <<>>), Ent(<<"2">>, <<"3">>)>>)}

SearchTypes == {"fulltext", "vector", "graph", "hybrid", "auto"}
Strategies == {"fulltext", "vector", "graph", "hybrid", "semantic"}

\* a call that has not returned yet: its arguments and the replies it will get
Call(op, search_type, strategy, limit, lex, vec, gra, input) ==
    [op |-> op, done |-> FALSE, search_type |-> search_type, strategy |-> strategy,
     limit |-> limit, lex |-> lex, vec |-> vec, gra |-> gra, input |-> input,
     results |-> <<>>, total |-> 0, error |-> FALSE, asked |-> search_type, ran |-> {}]

search ==
    /\ found.op = "search" /\ ~found.done
    /\ LET r == SearchResponse(found.search_type, found.strategy, found.limit,
                               found.lex, found.vec, found.gra)
       IN  found' = [found EXCEPT !.done = TRUE, !.search_type = r.search_type,
                                  !.input = IF r.error THEN <<>>
                                            ELSE Extended(r.search_type, found.limit,
                                                          found.lex, found.vec, found.gra),
                                  !.results = r.results, !.total = r.total,
                                  !.error = r.error,
                                  !.ran = SubSearches(r.search_type)]
    /\ UNCHANGED <<nodes, fresh, edges, ticks, last, jobs, calls, graph_cache, sched>>

\* the merge step on its own
deduplicate_and_sort ==
    /\ found.op = "_deduplicate_and_sort" /\ ~found.done
    /\ found' = [found EXCEPT !.done = TRUE,
                              !.results = _deduplicate_and_sort(found.input, found.limit),
                              !.total = Len(_deduplicate_and_sort(found.input, found.limit))]
    /\ UNCHANGED <<nodes, fresh, edges, ticks, last, jobs, calls, graph_cache, sched>>

ResultLists(n) ==
    UNION {[1..k -> {SearchResult(i, sc, "note") : i \in {"1", "2", "3"}, sc \in {70, 80, 90}}]
           : k \in 0..n}

SearchCalls ==
    {Call("search", ty, st, limit, lex, vec, gra, <<>>) :
        ty \in SearchTypes, st \in Strategies, limit \in 0..MaxLimit,
        lex \in LexReplies, vec \in VecReplies, gra \in GraReplies}

MergeCalls ==
    {Call("_deduplicate_and_sort", "", "", limit, <<>>, <<>>, <<>>, rs) :
        rs \in ResultLists(MaxResults), limit \in 0..MaxLimit + 1}

InitSearch == InitGraph /\ found \in SearchCalls \cup MergeCalls

NextSearch == search \/ deduplicate_and_sort

SpecSearch == InitSearch /\ [][NextSearch]_vars

----------------------------------------------------------------------------
(* Properties of retrieval *)

Returned == found.done /\ found.op \in {"search", "_deduplicate_and_sort"}

Ids(s) == {s[k].id : k \in 1..Len(s)}

\* the highest score the list s has for an id
Best(s, id) ==
    CHOOSE m \in {s[k].score : k \in {h \in 1..Len(s) : s[h].id = id}} :
        \A k \in 1..Len(s) : s[k].id = id => s[k].score <= m

\* the order of ids: the ids are the decimal strings of 1..4
IdLess(a, b) ==
    (CHOOSE i \in 1..4 : Str(i) = a) < (CHOOSE i \in 1..4 : Str(i) = b)

\* C6: the list the merge step returns has each id at most once, and the score it
\* has for an id is the highest score the input has for that id; when the input has
\* no more ids than the limit, every id of the input is returned.
C6_DedupKeepsMax ==
    Returned =>
        /\ \A i, j \in 1..Len(found.results) :
              i # j => found.results[i].id # found.results[j].id
        /\ \A i \in 1..Len(found.results) :
              /\ found.results[i].id \in Ids(found.input)
              /\ found.results[i].score = Best(found.input, found.results[i].id)
        /\ Cardinality(Ids(found.input)) <= found.limit => Ids(found.results) = Ids(found.input)

C6_Witness ==
    /\ found.op = "search" /\ found.done
    /\ \E i, j \in 1..Len(found.input) :
          /\ found.input[i].id = found.input[j].id
          /\ found.input[i].score = 70 /\ found.input[j].score = 90
          /\ \E k \in 1..Len(found.results) :
                found.results[k].id = found.input[i].id /\ found.results[k].score = 90

\* C7: the list search returns is in non-increasing score order and has at most
\* limit entries (limit of them when that many ids were found), and no id that was
\* found and left out has a higher score than an entry that is returned.
C7_RankedAndCut ==
    Returned =>
        /\ \A i, j \in 1..Len(found.results) :
              i < j => found.results[i].score >= found.results[j].score
        /\ Len(found.results) <= found.limit
        /\ Cardinality(Ids(found.input)) >= found.limit => Len(found.results) = found.limit
        /\ \A k \in 1..Len(found.results) :
              \A x \in Ids(found.input) \ Ids(found.results) :
                  Best(found.input, x) <= found.results[k].score

C7_Witness ==
    /\ found.op = "search" /\ found.done
    /\ Cardinality(Ids(found.input)) > found.limit
    /\ Len(found.results) = 2
    /\ found.results[1].score > found.results[2].score
    /\ \E x \in Ids(found.input) \ Ids(found.results) :
          Best(found.input, x) < found.results[2].score

\* C8: the results are ordered by score and then by id: of two results with equal
\* score the one with the smaller id comes first.
C8_TieBreakById ==
    Returned =>
        \A i, j \in 1..Len(found.results) :
            i < j =>
                \/ found.results[i].score > found.results[j].score
                \/ /\ found.results[i].score = found.results[j].score
                   /\ IdLess(found.results[i].id, found.results[j].id)

\* what a sub-search adds to the list: nothing when it fails
LexAdds(lex, limit) == IF ~lex.ok THEN <<>> ELSE _fulltext_search(lex, limit)
VecAdds(vec, limit) == IF ~vec.ok \/ ~vec.embedding THEN <<>> ELSE _vector_search(vec, limit)
GraAdds(gra, limit) == IF ~gra.ok THEN <<>> ELSE _graph_search(gra, limit)

\* C9: a hybrid search in which sub-searches fail returns no error, and its results
\* are the merged and ranked results of the sub-searches that did not fail.
C9_FailedSubSearchAddsNothing ==
    (found.op = "search" /\ found.done /\ found.search_type = "hybrid") =>
        /\ ~found.error
        /\ found.results =
              _deduplicate_and_sort(LexAdds(found.lex, found.limit)
                                    \o VecAdds(found.vec, found.limit)
                                    \o GraAdds(found.gra, found.limit), found.limit)
        /\ found.total = Len(found.results)

C9_Witness ==
    /\ found.op = "search" /\ found.done /\ found.search_type = "hybrid"
    /\ ~found.gra.ok /\ found.lex.ok /\ found.vec.ok /\ found.vec.embedding
    /\ Len(found.results) >= 2
    /\ \E k \in 1..Len(found.results) : found.results[k].score > FULLTEXT_SCORE

----------------------------------------------------------------------------
(* Maintenance on demand: the note tools and the entity merge.  Each tool runs its
   statements through execute_cypher, one implicit transaction per statement: a
   statement that raises changes nothing. *)

MaxNotes == 2

EntityNames == {"a", "b", "c"}
Plain(s, t, ty) == Edge(s, t, ty, NoWeight, NoConf, FALSE, NoReason)
Entity(name) == Node("Entity", name)

\* MERGE (s)-[:ty]->(t) without properties
MergePlain(es, s, t, ty) ==
    IF \E e \in es : e.src = s /\ e.dst = t /\ e.type = ty THEN es
    ELSE es \cup {Plain(s, t, ty)}

RECURSIVE SaveLinks(_, _, _, _, _)
SaveLinks(es, n, label, ty, names) ==
    IF names = <<>> THEN es
    ELSE SaveLinks(MergePlain(es, n, Node(label, Head(names)), ty), n, label, ty, Tail(names))

Named(label, names) == {Node(label, names[k]) : k \in 1..Len(names)}

Notes(ns) == {n \in ns : n.label = "Note"}

\* the ids no note has; uuid4 gives one of them
FreeNoteIds == {i \in 1..MaxNotes + 1 : Node("Note", Str(i)) \notin nodes}

uuid4 == CHOOSE i \in FreeNoteIds : \A j \in FreeNoteIds : i <= j

save_note(entities, tags) ==
    /\ Cardinality(Notes(nodes)) < MaxNotes
    /\ LET n == Node("Note", Str(uuid4))
       IN  /\ nodes' = nodes \cup {n} \cup Named("Entity", entities) \cup Named("Tag", tags)
           /\ fresh' = fresh \cup {n}
           /\ edges' = SaveLinks(SaveLinks(edges, n, "Entity", "MENTIONS", entities),
                                 n, "Tag", "HAS_TAG", tags)
    /\ last' = Done("save_note", TRUE, Len(entities), Str(uuid4), entities \o tags)
    /\ UNCHANGED <<ticks, found, jobs, calls, graph_cache, sched>>

\* relation.upper().replace(" ", "_"), and whether the outcome is alphanumeric
\* apart from underscores
RelationNames == {"related to", "mentions", "part-of"}
RelType(relation) ==
    CASE relation = "related to" -> "RELATED_TO"
      [] relation = "mentions" -> "MENTIONS"
      [] relation = "part-of" -> "PART-OF"
IsAlnum(rel_type) == rel_type \in {"RELATED_TO", "MENTIONS"}

create_relation(entity1, entity2, relation) ==
    /\ IF ~IsAlnum(RelType(relation))
          THEN UNCHANGED <<nodes, edges>>
          ELSE /\ nodes' = nodes \cup {Entity(entity1), Entity(entity2)}
               /\ edges' = MergePlain(edges, Entity(entity1), Entity(entity2), RelType(relation))
    /\ last' = Done("create_relation", IsAlnum(RelType(relation)), 0, "",
                    <<entity1, entity2, relation>>)
    /\ UNCHANGED <<fresh, ticks, found, jobs, calls, graph_cache, sched>>

\* the rows of OPTIONAL MATCH (n:Note)-[r:MENTIONS]->(remove)
MentionRows(es, remove) ==
    {r \in es : r.type = "MENTIONS" /\ r.dst = remove /\ r.src.label = "Note"}

\* a merge statement that deletes the node and leaves its other relationships
MergeStatementAttached(ns, es, keep_name, remove_name, lenient, reads) ==
    LET keep   == Entity(keep_name)
        remove == Entity(remove_name)
        rows   == MentionRows(es, remove)
    IN  IF keep \notin ns \/ remove \notin ns
            THEN [raises |-> FALSE, nodes |-> ns, edges |-> es]
        ELSE [raises |-> FALSE, nodes |-> ns \ {remove},
              edges |-> (es \cup {Plain(r.src, keep, "MENTIONS") : r \in rows}) \ rows]

\* the effect of the merge statement on the graph <<nodes, edges>>, and whether it
\* raises.  lenient: the server skips a MERGE whose node is null instead of raising;
\* reads: RETURN of a property of a node deleted in the statement does not raise.
MergeStatement(ns, es, keep_name, remove_name, lenient, reads) ==
    LET keep   == Entity(keep_name)
        remove == Entity(remove_name)
        rows   == MentionRows(es, remove)
        moved  == (es \cup {Plain(r.src, keep, "MENTIONS") :
                              r \in {x \in rows : ~\E e \in es : /\ e.src = x.src
                                                                  /\ e.dst = keep
                                                                  /\ e.type = "MENTIONS"}})
                  \ rows
    IN  IF keep \notin ns \/ remove \notin ns
            THEN [raises |-> FALSE, nodes |-> ns, edges |-> es]
        ELSE IF rows = {} /\ ~lenient
            THEN [raises |-> TRUE, nodes |-> ns, edges |-> es]
        ELSE IF keep = remove /\ ~reads
            THEN [raises |-> TRUE, nodes |-> ns, edges |-> es]
        ELSE [raises |-> FALSE, nodes |-> ns \ {remove},
              edges |-> {e \in moved : e.src # remove /\ e.dst # remove}]

\* a merge without the check of keep_name
merge_unchecked(entity1, entity2, keep_name, lenient, reads) ==
    LET remove_name == IF keep_name = entity1 THEN entity2 ELSE entity1
        m == MergeStatement(nodes, edges, keep_name, remove_name, lenient, reads)
    IN  /\ nodes' = IF ~m.raises THEN m.nodes ELSE nodes
        /\ edges' = IF ~m.raises THEN m.edges ELSE edges
        /\ last' = Done("merge_similar_entities", ~m.raises, 0, keep_name,
                        <<entity1, entity2>>)
        /\ UNCHANGED <<fresh, ticks, found, jobs, calls, graph_cache, sched>>

merge_similar_entities(entity1, entity2, keep_name, lenient, reads) ==
    LET remove_name == IF keep_name = entity1 THEN entity2 ELSE entity1
        m == MergeStatement(nodes, edges, keep_name, remove_name, lenient, reads)
        accepted == keep_name \in {entity1, entity2}
    IN  /\ nodes' = IF accepted /\ ~m.raises THEN m.nodes ELSE nodes
        /\ edges' = IF accepted /\ ~m.raises THEN m.edges ELSE edges
        /\ last' = Done("merge_similar_entities", accepted /\ ~m.raises, 0, keep_name,
                        <<entity1, entity2>>)
        /\ UNCHANGED <<fresh, ticks, found, jobs, calls, graph_cache, sched>>

\* a WHERE that looks at outgoing relationships only
OrphansOutgoing(ns, es, label) ==
    {n \in ns : (label = "all" \/ n.label = label) /\ ~\E e \in es : e.src = n}

\* MATCH (n) or MATCH (n:label), WHERE NOT (n)-[]-()
Orphans(ns, es, label) ==
    {n \in ns : (label = "all" \/ n.label = label) /\ ~\E e \in es : e.src = n \/ e.dst = n}

OrphanLabels == {"all", "Note", "Entity"}

remove_orphan_nodes(label, store) ==
    /\ nodes' = IF store = "ok" THEN nodes \ Orphans(nodes, edges, label) ELSE nodes
    /\ fresh' = fresh \cap nodes'
    /\ last' = Done("remove_orphan_nodes", store = "ok",
                    IF store = "ok" THEN Cardinality(Orphans(nodes, edges, label)) ELSE 0,
                    label, <<>>)
    /\ UNCHANGED <<edges, ticks, found, jobs, calls, graph_cache, sched>>

InitMaint ==
    /\ nodes = {}
    /\ fresh = {}
    /\ edges = {}
    /\ ticks = 0
    /\ found = NoSearch
    /\ last = [op |-> "init", ok |-> TRUE, n |-> 0, id |-> "", arg |-> <<>>, prev |-> 0 - 1]
    /\ jobs = NoJobs
    /\ calls = NoCalls
    /\ graph_cache = NoCache
    /\ sched = NoSched

Draft(entities, tags) == [entities |-> entities, tags |-> tags]
Drafts ==
    {Draft(<<>>, <<>>), Draft(<<"a">>, <<"t">>), Draft(<<"b">>, <<>>),
     Draft(<<"a", "b">>, <<>>)}

NextMaint ==
    \/ \E d \in Drafts : save_note(d.entities, d.tags)
    \/ \E r \in RelationNames : create_relation("c", "b", r)
    \/ \E e1 \in {"a", "c"}, e2 \in {"a", "b"}, k \in EntityNames,
          lenient \in BOOLEAN, reads \in BOOLEAN :
          merge_similar_entities(e1, e2, k, lenient, reads)
    \/ \E label \in OrphanLabels, store \in {"ok", "fails"} : remove_orphan_nodes(label, store)

SpecMaint == InitMaint /\ [][NextMaint]_vars

\* C10: a merge of B into the survivor A, both existing and different, leaves A in
\* the graph, removes B, and gives every other node that had an edge to B an edge
\* of the same type to A.
C10_MergeRepointsAndRemoves ==
    [][(/\ last'.op = "merge_similar_entities"
        /\ Len(last'.arg) = 2
        /\ last'.id \in {last'.arg[1], last'.arg[2]}
        /\ last'.arg[1] # last'.arg[2]) =>
          LET A == Entity(last'.id)
              B == Entity(IF last'.id = last'.arg[1] THEN last'.arg[2] ELSE last'.arg[1])
          IN  (A \in nodes /\ B \in nodes) =>
                  /\ A \in nodes'
                  /\ B \notin nodes'
                  /\ \A e \in edges :
                        (e.dst = B /\ e.src \notin {A, B}) =>
                            \E e2 \in edges' :
                                e2.src = e.src /\ e2.dst = A /\ e2.type = e.type]_vars

\* C11: a merge whose keep_name is neither entity1 nor entity2 is refused and leaves
\* every node and every edge as it was.
C11_MergeRefusesOtherSurvivor ==
    [][(/\ last'.op = "merge_similar_entities"
        /\ last'.id \notin {last'.arg[1], last'.arg[2]}) =>
          (~last'.ok /\ nodes' = nodes /\ edges' = edges)]_vars

C11_Witness ==
    /\ last.op = "merge_similar_entities" /\ ~last.ok
    /\ last.id \notin {last.arg[1], last.arg[2]}
    /\ {Entity(last.id), Entity(last.arg[1]), Entity(last.arg[2])} \subseteq nodes
    /\ MentionRows(edges, Entity(last.arg[1])) # {}

HasEdge(n, es) == \E e \in es : e.src = n \/ e.dst = n

\* C12: an orphan removal deletes exactly the nodes of the requested label (of every
\* label for "all") that have no incident edge, deletes no edge, and reports the
\* number of nodes it deleted.
C12_OrphanRemovalExact ==
    [][(last'.op = "remove_orphan_nodes" /\ last'.ok) =>
          /\ nodes' \subseteq nodes
          /\ \A n \in nodes :
                n \notin nodes' <=>
                    ((last'.id = "all" \/ n.label = last'.id) /\ ~HasEdge(n, edges))
          /\ edges' = edges
          /\ last'.n = Cardinality(nodes \ nodes')]_vars

C12_Witness ==
    /\ last.op = "remove_orphan_nodes" /\ last.ok /\ last.n >= 1 /\ last.id = "Note"
    /\ \E n \in nodes : n.label = "Note" /\ HasEdge(n, edges)
    /\ \E n \in nodes : n.label = "Entity" /\ HasEdge(n, edges)

----------------------------------------------------------------------------
(* Consolidation of notes by topic.  Which notes contain the keyword is the reply of
   the store to the search statement; the tool runs three statements, each in its
   own implicit transaction, and catches nothing. *)

\* NoteService._create_note_tags: MERGE of the tag, then of the TAGGED_WITH edge
RECURSIVE TagLinks(_, _, _, _)
TagLinks(es, ns, n, tags) ==
    IF tags = <<>> THEN es
    ELSE TagLinks(MergeRel(es, ns \cup Named("Tag", tags), n, Node("Tag", Head(tags)),
                           "TAGGED_WITH", NoWeight, 95, TRUE, NoReason),
                  ns, n, Tail(tags))

_create_note_tags(note_id, tags) ==
    /\ nodes' = nodes \cup Named("Tag", tags)
    /\ edges' = TagLinks(edges, nodes, Node("Note", note_id), tags)
    /\ last' = Done("_create_note_tags", TRUE, Len(tags), note_id, tags)
    /\ UNCHANGED <<fresh, ticks, found, jobs, calls, graph_cache, sched>>

OldNotes(ns, old_ids) == {n \in Notes(ns) : \E k \in 1..Len(old_ids) : n.key = old_ids[k]}

\* the targets of OPTIONAL MATCH (old)-[:ty]->(x:label)
Targets(es, old, ty, label) ==
    {e.dst : e \in {x \in es : x.src = old /\ x.type = ty /\ x.dst.label = label}}

\* the transfer statement: raises when a MERGE gets a null node (an old note without
\* a mentioned entity, or without a tag) unless the server is lenient
TransferStatement(ns, es, old_ids, summary, lenient) ==
    LET olds  == OldNotes(ns, old_ids)
        ments == UNION {Targets(es, o, "MENTIONS", "Entity") : o \in olds}
        tags  == UNION {Targets(es, o, "HAS_TAG", "Tag") : o \in olds}
        nulls == \E o \in olds : \/ Targets(es, o, "MENTIONS", "Entity") = {}
                                 \/ Targets(es, o, "HAS_TAG", "Tag") = {}
        added == {Plain(summary, e, "MENTIONS") : e \in ments}
                 \cup {Plain(summary, t, "HAS_TAG") : t \in tags}
    IN  IF summary \notin ns \/ olds = {}
            THEN [raises |-> FALSE, nodes |-> ns, edges |-> es]
        ELSE IF nulls /\ ~lenient
            THEN [raises |-> TRUE, nodes |-> ns, edges |-> es]
        ELSE [raises |-> FALSE, nodes |-> ns \ olds,
              edges |-> {e \in es \cup added : e.src \notin olds /\ e.dst \notin olds}]

\* failAt: the statement at which the store raises (0: none)
consolidate_notes_by_topic(old_ids, lenient, failAt) ==
    /\ FreeNoteIds # {}
    /\ \A k \in 1..Len(old_ids) : Node("Note", old_ids[k]) \in nodes
    /\ LET summary == Node("Note", Str(uuid4))
           created == nodes \cup {summary}
           t == TransferStatement(created, edges, old_ids, summary, lenient)
       IN  IF failAt = 1 \/ old_ids = <<>>
              THEN /\ UNCHANGED <<nodes, edges, fresh>>
                   /\ last' = Done("consolidate_notes_by_topic", failAt # 1, 0, "", old_ids)
           ELSE IF failAt = 2
              THEN /\ UNCHANGED <<nodes, edges, fresh>>
                   /\ last' = Done("consolidate_notes_by_topic", FALSE, Len(old_ids), "",
                                   old_ids)
           ELSE IF failAt = 3 \/ t.raises
              THEN /\ nodes' = created
                   /\ fresh' = fresh \cup {summary}
                   /\ UNCHANGED edges
                   /\ last' = Done("consolidate_notes_by_topic", FALSE, Len(old_ids),
                                   summary.key, old_ids)
           ELSE /\ nodes' = t.nodes
                /\ edges' = t.edges
                /\ fresh' = (fresh \cup {summary}) \cap t.nodes
                /\ last' = Done("consolidate_notes_by_topic", TRUE, Len(old_ids),
                                summary.key, old_ids)
    /\ UNCHANGED <<ticks, found, jobs, calls, graph_cache, sched>>

OldIdLists ==
    {<<>>} \cup {<<Str(i)>> : i \in 1..MaxNotes + 1}
    \cup {<<Str(i), Str(j)>> : i \in 1..MaxNotes + 1, j \in 2..MaxNotes + 1}

InitTopic == InitMaint

NextTopic ==
    \/ \E d \in Drafts : save_note(d.entities, d.tags)
    \/ \E i \in 1..MaxNotes : _create_note_tags(Str(i), <<"t">>)
    \/ \E ids \in OldIdLists, lenient \in BOOLEAN, failAt \in 0..3 :
          consolidate_notes_by_topic(ids, lenient, failAt)

SpecTopic == InitTopic /\ [][NextTopic]_vars

\* C14: a consolidation that finds notes and meets no store failure creates one new
\* note, the summary; the summary has an edge of the same type to every Entity and
\* Tag a found note pointed to with MENTIONS or TAGGED_WITH; no found note is left.
C14_ConsolidateRepoints ==
    [][(\E ids \in OldIdLists \ {<<>>}, lenient \in BOOLEAN :
            consolidate_notes_by_topic(ids, lenient, 0)) =>
          LET olds == OldNotes(nodes, last'.arg)
          IN  /\ Cardinality(Notes(nodes') \ Notes(nodes)) = 1
              /\ \A o \in olds : o \notin nodes'
              /\ \A e \in edges :
                    (/\ e.src \in olds /\ e.type \in {"MENTIONS", "TAGGED_WITH"}
                     /\ e.dst.label \in {"Entity", "Tag"}) =>
                        \E e2 \in edges' : /\ e2.src \in Notes(nodes') \ Notes(nodes)
                                           /\ e2.dst = e.dst /\ e2.type = e.type]_vars

\* C15: a consolidation (or a merge) in which a statement fails leaves the graph as
\* it was before the operation: no summary note is left and no note is deleted.
C15_FailedOperationChangesNothing ==
    [][(/\ last'.op \in {"consolidate_notes_by_topic", "merge_similar_entities"}
        /\ ~last'.ok) =>
          (nodes' = nodes /\ edges' = edges)]_vars

\* C17: every edge written when a note is taken in (MENTIONS to an entity,
\* TAGGED_WITH to a tag, BELONGS_TO, RELATED_TO) has a weight, and the weight it was
\* written with is the confidence of the proposal it came from.
C17_IngestionEdgesWeighted ==
    \A e \in edges :
        e.type \in {"MENTIONS", "TAGGED_WITH", "BELONGS_TO", "RELATED_TO"} =>
            /\ e.w0.has
            /\ e.conf # NoConf => WEq(e.w0, Weight(e.conf))

----------------------------------------------------------------------------
(* Consolidations that overlap.  The tool runs its three statements one after the
   other, each in its own transaction, and takes no lock: another call's
   statements may run between them.  The notes save_note wrote contain the
   keyword; the summary text does not. *)

\* str(uuid.uuid4()) of the call of caller c
SummaryId(c) == <<"u1", "u2", "u3", "u4">>[c]

Summary(c) == Node("Note", SummaryId(c))

\* MATCH (n:Note) WHERE n.content CONTAINS $keyword
Matching(ns) == {n \in Notes(ns) : \A c \in Callers : n # Summary(c)}

RECURSIVE SeqOf(_)
SeqOf(S) == IF S = {} THEN <<>>
            ELSE LET x == CHOOSE y \in S : TRUE IN <<x>> \o SeqOf(S \ {x})

\* [n['note_id'] for n in notes]
NoteIdsOf(ns) == SeqOf({n.key : n \in ns})

\* notes = execute_cypher(search_query); if not notes: return
consolidate_search(c) ==
    /\ calls[c].pc = "idle"
    /\ calls' = [calls EXCEPT
                   ![c].pc = IF Matching(nodes) = {} THEN "done" ELSE "searched",
                   ![c].ids = NoteIdsOf(Matching(nodes)),
                   ![c].graph = [nodes |-> nodes, edges |-> edges],
                   ![c].first = \A q \in Callers : calls[q].pc = "idle"]
    /\ last' = IF Matching(nodes) = {}
                  THEN Done("consolidate_notes_by_topic", TRUE, 0, "", <<>>)
                  ELSE last
    /\ UNCHANGED <<nodes, fresh, edges, ticks, found, jobs, graph_cache, sched>>

\* execute_cypher(create_query)
consolidate_create(c) ==
    /\ calls[c].pc = "searched"
    /\ nodes' = nodes \cup {Summary(c)}
    /\ fresh' = fresh \cup {Summary(c)}
    /\ calls' = [calls EXCEPT ![c].pc = "created"]
    /\ UNCHANGED <<edges, ticks, found, last, jobs, graph_cache, sched>>

\* execute_cypher(transfer_query)
consolidate_transfer(c) ==
    /\ calls[c].pc = "created"
    /\ LET t == TransferStatement(nodes, edges, calls[c].ids, Summary(c), calls[c].lenient)
       IN  /\ nodes' = t.nodes
           /\ edges' = t.edges
           /\ fresh' = fresh \cap t.nodes
           /\ calls' = [calls EXCEPT ![c].pc = IF t.raises THEN "failed" ELSE "done"]
           /\ last' = Done("consolidate_notes_by_topic", ~t.raises, Len(calls[c].ids),
                           SummaryId(c), calls[c].ids)
    /\ UNCHANGED <<ticks, found, jobs, graph_cache, sched>>

\* the graph after the whole call of caller c, run alone on graph g
Consolidated(g, c, lenient) ==
    LET olds    == Matching(g.nodes)
        created == g.nodes \cup {Summary(c)}
        t       == TransferStatement(created, g.edges, NoteIdsOf(olds), Summary(c), lenient)
    IN  IF olds = {} THEN g
        ELSE [nodes |-> t.nodes, edges |-> t.edges]

\* the graphs the calls of the callers cs give when run one after the other, in
\* any order
RECURSIVE SerialAll(_, _, _)
SerialAll(g, cs, lenient) ==
    IF cs = {} THEN {g}
    ELSE UNION {SerialAll(Consolidated(g, c, lenient), cs \ {c}, lenient) : c \in cs}

InitRace ==
    /\ nodes = {}
    /\ fresh = {}
    /\ edges = {}
    /\ ticks = 0
    /\ found = NoSearch
    /\ last = [op |-> "init", ok |-> TRUE, n |-> 0, id |-> "", arg |-> <<>>, prev |-> 0 - 1]
    /\ jobs = NoJobs
    /\ \E l \in BOOLEAN : calls = [c \in Callers |-> [NoCall EXCEPT !.lenient = l]]
    /\ graph_cache = NoCache
    /\ sched = NoSched

\* the notes are saved before the first consolidation begins
NextRace ==
    \/ /\ \A c \in Callers : calls[c].pc = "idle"
       /\ \E d \in Drafts : save_note(d.entities, d.tags)
    \/ \E c \in Callers : \/ consolidate_search(c)
                          \/ consolidate_create(c)
                          \/ consolidate_transfer(c)

SpecRace == InitRace /\ [][NextRace]_vars

\* C21: when two consolidations that find the same notes have both ended, the graph
\* is the graph that running the two calls one after the other, in one of the two
\* orders, gives from the graph the first call began with.
C21_ConsolidationsSerial ==
    (\A c \in Callers : calls[c].pc \in {"done", "failed"}) =>
        \E c \in Callers :
            /\ calls[c].first
            /\ [nodes |-> nodes, edges |-> edges]
                  \in SerialAll(calls[c].graph, Callers, calls[c].lenient)

----------------------------------------------------------------------------
(* Incremental analyses of one user's notes that overlap.  Caller c analyses note
   c.  The snapshot of the user's graph is kept as the set of relationships read
   by _get_user_graph; every redis call swallows its own exception. *)

\* what relation_agent.analyze_note_relations returns
AnalysisReplies ==
    {<<>>, <<Rel("category", "1", TRUE, 90, "")>>,
     <<Rel("event", "1", TRUE, 90, ""), Rel("category", "1", FALSE, 0, "")>>}

\* what tag_agent.generate_tags returns
TagReplies == {<<>>, <<"1">>}

\* cached_graph = redis_db.get(cache_key)
analysis_get(c) ==
    /\ calls[c].pc = "idle"
    /\ calls' = [calls EXCEPT
                   ![c].pc = IF graph_cache.has THEN "analyse" ELSE "query",
                   ![c].graph = [nodes |-> {}, edges |-> graph_cache.graph]]
    /\ UNCHANGED <<nodes, fresh, edges, ticks, found, last, jobs, graph_cache, sched>>

\* user_graph = self._get_user_graph(user_id)
analysis_query(c) ==
    /\ calls[c].pc = "query"
    /\ calls' = [calls EXCEPT ![c].pc = "set", ![c].graph = [nodes |-> {}, edges |-> edges]]
    /\ UNCHANGED <<nodes, fresh, edges, ticks, found, last, jobs, graph_cache, sched>>

\* redis_db.set(cache_key, json.dumps(user_graph), ttl=3600)
analysis_set(c, redis) ==
    /\ calls[c].pc = "set"
    /\ graph_cache' = IF redis = "ok" THEN [has |-> TRUE, graph |-> calls[c].graph.edges]
                      ELSE graph_cache
    /\ calls' = [calls EXCEPT ![c].pc = "analyse"]
    /\ UNCHANGED <<nodes, fresh, edges, ticks, found, last, jobs, sched>>

\* the two agents answer, or one of them raises: the except branch logs and the
\* analysis returns
analysis_agents(c, ok, relations, tags) ==
    /\ calls[c].pc = "analyse"
    /\ calls' = [calls EXCEPT ![c].pc = IF ok THEN "write" ELSE "returned",
                              ![c].relations = IF ok THEN relations ELSE <<>>,
                              ![c].tags = IF ok THEN tags ELSE <<>>]
    /\ last' = IF ok THEN last
               ELSE Done("_incremental_relation_analysis", FALSE, 0, Str(c), <<>>)
    /\ UNCHANGED <<nodes, fresh, edges, ticks, found, jobs, graph_cache, sched>>

\* self._create_note_relations(note_id, relations); the store raises at relation
\* failAt (0: never)
analysis_write(c, failAt) ==
    /\ calls[c].pc = "write"
    /\ failAt <= Len(calls[c].relations)
    /\ edges' = NoteRelLoop(edges, nodes, Str(c), calls[c].relations, 1, failAt)
    /\ calls' = [calls EXCEPT ![c].pc = IF failAt = 0 THEN "tags" ELSE "returned",
                              ![c].wrote = edges' \ edges]
    /\ last' = IF failAt = 0 THEN last
               ELSE Done("_incremental_relation_analysis", FALSE,
                         Cardinality(edges' \ edges), Str(c), calls[c].relations)
    /\ UNCHANGED <<nodes, fresh, ticks, found, jobs, graph_cache, sched>>

\* self._create_note_tags(note_id, tags)
analysis_tags(c) ==
    /\ calls[c].pc = "tags"
    /\ nodes' = nodes \cup Named("Tag", calls[c].tags)
    /\ edges' = TagLinks(edges, nodes, Node("Note", Str(c)), calls[c].tags)
    /\ calls' = [calls EXCEPT ![c].pc = "delete", ![c].wrote = @ \cup (edges' \ edges)]
    /\ UNCHANGED <<fresh, ticks, found, last, jobs, graph_cache, sched>>

\* redis_db.delete(cache_key), and the analysis returns
analysis_delete(c, redis) ==
    /\ calls[c].pc = "delete"
    /\ graph_cache' = IF redis = "ok" THEN NoCache ELSE graph_cache
    /\ calls' = [calls EXCEPT ![c].pc = "returned"]
    /\ last' = Done("_incremental_relation_analysis", TRUE, Cardinality(calls[c].wrote),
                    Str(c), calls[c].relations)
    /\ UNCHANGED <<nodes, fresh, edges, ticks, found, jobs, sched>>

InitCache == Init

NextCache ==
    \E c \in Callers :
        \/ analysis_get(c)
        \/ analysis_query(c)
        \/ \E redis \in {"ok", "fails"} : analysis_set(c, redis)
        \/ \E ok \in BOOLEAN, rs \in AnalysisReplies, ts \in TagReplies :
              analysis_agents(c, ok, rs, ts)
        \/ \E f \in 0..2 : analysis_write(c, f)
        \/ analysis_tags(c)
        \/ \E redis \in {"ok", "fails"} : analysis_delete(c, redis)

SpecCache == InitCache /\ [][NextCache]_vars

\* C22: once an incremental analysis that wrote edges has returned, the cached
\* snapshot of the user's graph is absent or holds the edges that analysis wrote.
C22_SnapshotFresh ==
    \A c \in Callers :
        (calls[c].pc = "returned" /\ calls[c].wrote # {}) =>
            (~graph_cache.has \/ calls[c].wrote \subseteq graph_cache.graph)

----------------------------------------------------------------------------
(* Conversation history: sessions, their messages and the trimming tool.  A message
   is a node [label, key, timestamp]; key stands for the identity the store gives
   to a created node, timestamp for datetime.now().isoformat(). *)

MaxMessages == 3
MaxTime == 2
MaxKeep == 2

SessionIds == {"s1", "s2"}
Session(id) == Node("Session", id)
Message(k, t) == [label |-> "Message", key |-> Str(k), timestamp |-> t]

\* MATCH (s:Session {id: $session_id})-[:HAS_MESSAGE]->(m:Message)
SessionMessages(ns, es, session_id) ==
    {m \in ns : /\ m.label = "Message"
                /\ \E e \in es : /\ e.type = "HAS_MESSAGE" /\ e.dst = m
                                 /\ e.src = Session(session_id) /\ e.src \in ns}

FreeMessageKeys == {k \in 1..MaxMessages : \A m \in nodes : m.label = "Message" => m.key # Str(k)}

_ensure_session_exists(session_id) ==
    /\ nodes' = nodes \cup {Session(session_id)}
    /\ last' = Done("_ensure_session_exists", TRUE, 0, session_id, <<>>)
    /\ UNCHANGED <<fresh, edges, ticks, found, jobs, calls, graph_cache, sched>>

\* MATCH (s:Session ...) CREATE (m:Message ...) CREATE (s)-[:HAS_MESSAGE]->(m): no row,
\* and nothing created, when the session node is not there
add_message(session_id, timestamp) ==
    /\ FreeMessageKeys # {}
    /\ LET m == Message(CHOOSE k \in FreeMessageKeys : \A j \in FreeMessageKeys : k <= j,
                        timestamp)
       IN  IF Session(session_id) \in nodes
              THEN /\ nodes' = nodes \cup {m}
                   /\ edges' = edges \cup {Plain(Session(session_id), m, "HAS_MESSAGE")}
              ELSE UNCHANGED <<nodes, edges>>
    /\ last' = Done("add_message", TRUE, 0, session_id, <<timestamp>>)
    /\ UNCHANGED <<fresh, ticks, found, jobs, calls, graph_cache, sched>>

\* the sets of rows that can be left after ORDER BY m.timestamp ASC SKIP keep_recent
OldestRows(ms, keep_recent) ==
    {D \in SUBSET ms :
        /\ Cardinality(D) = (IF Cardinality(ms) > keep_recent
                                THEN Cardinality(ms) - keep_recent ELSE 0)
        /\ \A d \in D, k \in ms \ D : d.timestamp >= k.timestamp}

\* the sets of rows that can be left after ORDER BY m.timestamp DESC SKIP keep_recent:
\* rows with equal timestamps come in any order
SkippedRows(ms, keep_recent) ==
    {D \in SUBSET ms :
        /\ Cardinality(D) = (IF Cardinality(ms) > keep_recent
                                THEN Cardinality(ms) - keep_recent ELSE 0)
        /\ \A d \in D, k \in ms \ D : d.timestamp <= k.timestamp}

\* SKIP of a negative number raises
prune_old_messages(session_id, keep_recent, store) ==
    /\ IF store = "ok" /\ keep_recent >= 0
          THEN \E D \in SkippedRows(SessionMessages(nodes, edges, session_id), keep_recent) :
                  /\ nodes' = nodes \ D
                  /\ edges' = {e \in edges : e.src \notin D /\ e.dst \notin D}
                  /\ last' = Done("prune_old_messages", TRUE, Cardinality(D), session_id,
                                  <<keep_recent>>)
          ELSE /\ UNCHANGED <<nodes, edges>>
               /\ last' = Done("prune_old_messages", FALSE, 0, session_id, <<keep_recent>>)
    /\ UNCHANGED <<fresh, ticks, found, jobs, calls, graph_cache, sched>>

InitChat == InitMaint

NextChat ==
    \/ \E id \in SessionIds : _ensure_session_exists(id)
    \/ \E id \in SessionIds, t \in 1..MaxTime : add_message(id, t)
    \/ \E id \in SessionIds, k \in (0 - 1)..MaxKeep, store \in {"ok", "fails"} :
          prune_old_messages(id, k, store)

SpecChat == InitChat /\ [][NextChat]_vars

\* the messages a session has
MessagesOf(ns, es, id) ==
    {m \in ns : m.label = "Message" /\ \E e \in es : e.src = Session(id) /\ e.dst = m}

\* C13: trimming session S to N leaves min(N, count) of its messages, none of them
\* older than a deleted one; the messages of the other sessions are as before; with
\* N or fewer messages nothing is deleted.
C13_TrimKeepsLatest ==
    [][(last'.op = "prune_old_messages" /\ last'.ok) =>
          LET S    == last'.id
              N    == last'.arg[1]
              was  == MessagesOf(nodes, edges, S)
              kept == MessagesOf(nodes', edges', S)
          IN  /\ kept \subseteq was
              /\ Cardinality(kept) = (IF Cardinality(was) < N THEN Cardinality(was) ELSE N)
              /\ \A k \in kept, d \in was \ kept : k.timestamp >= d.timestamp
              /\ nodes \ nodes' = was \ kept
              /\ \A T \in SessionIds \ {S} :
                    MessagesOf(nodes', edges', T) = MessagesOf(nodes, edges, T)
              /\ Cardinality(was) <= N => (nodes' = nodes /\ edges' = edges)
              /\ last'.n = Cardinality(was \ kept)]_vars

C13_Witness ==
    /\ last.op = "prune_old_messages" /\ last.ok /\ last.n >= 1 /\ last.arg = <<1>>
    /\ Cardinality(MessagesOf(nodes, edges, last.id)) = 1
    /\ \E T \in SessionIds \ {last.id} : MessagesOf(nodes, edges, T) # {}


----------------------------------------------------------------------------
(* All the operations that add or delete nodes and edges, on one graph *)

InitAll == InitMaint

NextAll ==
    \/ \E d \in {Draft(<<"a", "b">>, <<>>), Draft(<<"a">>, <<"t">>)} :
          save_note(d.entities, d.tags)
    \/ create_relation("c", "b", "related to")
    \/ _create_note_relations("2", <<Rel("note", "1", TRUE, 5, "")>>, 0)
    \/ \E e1 \in {"a", "c"}, lenient \in BOOLEAN :
          merge_similar_entities(e1, "b", e1, lenient, TRUE)
    \/ \E label \in {"all", "Entity"} : remove_orphan_nodes(label, "ok")
    \/ \E i \in 1..MaxNotes + 1, failAt \in {0, 3} :
          consolidate_notes_by_topic(<<Str(i)>>, TRUE, failAt)
    \/ _ensure_session_exists("s1")
    \/ add_message("s1", 1)
    \/ prune_old_messages("s1", 1, "ok")
    \/ _cleanup_low_weight_relations("ok")

SpecAll == InitAll /\ [][NextAll]_vars

MaxHours == 4

\* CronTrigger(hour=3, minute=0)
CLEANUP_HOUR == 3

\* a store call: it returns or it raises
StoreOutcomes == {"ok", "fails"}

\* try: <body>  except Exception as e: logger.error(...), around a body that ran
\* once and raised or not: one attempt, an error line when it raised, and
\* nothing leaves the handler
TryExceptUncaught(raised) == [attempts |-> 1, logged |-> 0, raised |-> raised]

TryExcept(raised) == [attempts |-> 1, logged |-> IF raised THEN 1 ELSE 0, raised |-> FALSE]

\* the three awaited steps of cleanup_data, in the order of the code
CleanupSteps == <<"_cleanup_deleted_data", "_cleanup_expired_cache",
                  "_cleanup_low_weight_relations">>

\* the body of cleanup_data from step i on: a step runs when no earlier step
\* raised into cleanup_data; every step has a try/except of its own
RECURSIVE CleanupBody(_, _, _)
CleanupBody(outcomes, i, acc) ==
    IF i > Len(CleanupSteps) \/ acc.raised THEN acc
    ELSE LET r == TryExcept(outcomes[i] = "fails")
         IN  CleanupBody(outcomes, i + 1,
                         [ran |-> acc.ran \cup {CleanupSteps[i]},
                          logged |-> acc.logged + r.logged,
                          raised |-> r.raised])

\* cleanup_data: the body inside the try/except of the job itself
CleanupRun(outcomes) ==
    LET body == CleanupBody(outcomes, 1, [ran |-> {}, logged |-> 0, raised |-> FALSE])
        job == TryExcept(body.raised)
    IN  [attempts |-> job.attempts, ran |-> body.ran,
         logged |-> body.logged + job.logged, raised |-> job.raised]

\* an hour passes: the interval job becomes due, and at CLEANUP_HOUR of the day
\* the cron job too; a job is run once per firing
clock_tick ==
    /\ sched.running
    /\ sched.hour < MaxHours
    /\ sched' = [sched EXCEPT
                   !.hour = @ + 1,
                   !.due = {"weights"} \cup
                           (IF (sched.hour + 1) % 24 = CLEANUP_HOUR THEN {"cleanup"} ELSE {}),
                   !.runs = [weights |-> 0, cleanup |-> 0]]
    /\ UNCHANGED <<nodes, fresh, edges, ticks, found, last, jobs, calls, graph_cache>>

\* the scheduler runs update_relation_weights: decay statement, then boost
\* statement, inside one try/except
job_update_relation_weights(outcome) ==
    /\ sched.running
    /\ "weights" \in sched.due
    /\ LET decayed == IF outcome = "decay_fails" THEN edges ELSE HourlyDecayStatement(edges)
           boosted == IF outcome = "ok" THEN BoostStatement(decayed, Recent(fresh, ticks))
                      ELSE decayed
           job == TryExcept(outcome # "ok")
       IN  /\ edges' = boosted
           /\ ticks' = IF outcome = "decay_fails" THEN ticks ELSE ticks + 1
           /\ last' = Done("update_relation_weights", outcome = "ok",
                            IF outcome = "decay_fails" THEN 0
                            ELSE Cardinality({e \in edges : e.w.has}), "", <<>>)
           /\ sched' = [sched EXCEPT
                          !.due = @ \ {"weights"},
                          !.runs.weights = @ + job.attempts,
                          !.ran = {"update_relation_weights"},
                          !.logged = job.logged,
                          !.raised = job.raised,
                          !.running = ~job.raised]
    /\ UNCHANGED <<nodes, fresh, found, jobs, calls, graph_cache>>

\* the scheduler runs cleanup_data: the relational clean-up, the cache
\* clean-up (it only logs), the prune statement
job_cleanup_data(sql, prune) ==
    /\ sched.running
    /\ "cleanup" \in sched.due
    /\ LET job == CleanupRun(<<sql, "ok", prune>>)
           pruned == "_cleanup_low_weight_relations" \in job.ran /\ prune = "ok"
       IN  /\ edges' = IF pruned THEN PruneStatement(edges) ELSE edges
           /\ last' = Done("cleanup_data", sql = "ok" /\ prune = "ok",
                            IF pruned THEN Cardinality({e \in edges : LowWeight(e)}) ELSE 0,
                            sql, <<>>)
           /\ sched' = [sched EXCEPT
                          !.due = @ \ {"cleanup"},
                          !.runs.cleanup = @ + job.attempts,
                          !.ran = job.ran,
                          !.logged = job.logged,
                          !.raised = job.raised,
                          !.running = ~job.raised]
    /\ UNCHANGED <<nodes, fresh, ticks, found, jobs, calls, graph_cache>>

InitSched == InitExpiry

NextSched ==
    \/ clock_tick
    \/ \E outcome \in {"ok", "decay_fails", "boost_fails"} : job_update_relation_weights(outcome)
    \/ \E sql \in StoreOutcomes, prune \in StoreOutcomes : job_cleanup_data(sql, prune)

SpecSched == InitSched /\ [][NextSched]_vars

\* C24: a store failure in a decay/boost run or in a prune run is logged and
\* leaves no job as an exception: the scheduler keeps running, a job runs at most
\* once per firing whatever its outcome, and a cleanup_data run executes all three
\* of its steps whichever of them failed.
C24_FailureContained ==
    /\ sched.running
    /\ ~sched.raised
    /\ sched.runs.weights <= 1
    /\ sched.runs.cleanup <= 1
    /\ (last.op = "update_relation_weights" /\ ~last.ok) => sched.logged = 1
    /\ last.op = "cleanup_data" =>
          /\ sched.ran = {CleanupSteps[i] : i \in 1..Len(CleanupSteps)}
          /\ (~last.ok => sched.logged >= 1)

\* a cleanup whose prune statement failed has run, and the clock ticked on with
\* the hourly job due again
C24_Witness ==
    /\ last.op = "cleanup_data"
    /\ ~last.ok
    /\ last.id = "ok"
    /\ sched.logged = 1
    /\ sched.hour > CLEANUP_HOUR
    /\ "weights" \in sched.due

----------------------------------------------------------------------------
(* Further properties of retrieval *)

\* the sub-searches the search that returned has run
Ran(name) ==
    /\ found.op = "search" /\ found.done
    /\ found.search_type \in {name, "hybrid"}

\* C25: each of the lexical, vector and graph sub-searches that a search runs
\* returns at most limit results.
C25_SubSearchWithinLimit ==
    /\ Ran("fulltext") => Len(_fulltext_search(found.lex, found.limit)) <= found.limit
    /\ Ran("vector") => Len(_vector_search(found.vec, found.limit)) <= found.limit
    /\ Ran("graph") => Len(_graph_search(found.gra, found.limit)) <= found.limit

\* the documents of a result list
Docs(s) == {<<s[k].id, s[k].source_type>> : k \in 1..Len(s)}

C30_SubSearchRuns ==
    (found.op = "search" /\ found.done) =>
        /\ found.asked = "auto" => found.ran # {}
        /\ found.asked # "auto" => found.ran = SubSearches(found.asked)

----------------------------------------------------------------------------
(* Further properties of the graph operations *)

\* the node a relation of _create_note_relations points to
RelTarget(rel) ==
    Node(CASE rel.type = "category" -> "Category"
           [] rel.type = "event" -> "Event"
           [] OTHER -> "Note", rel.target_id)

\* C26: an operation that writes an edge whose source or target node does not
\* exist reports an error to its caller and creates no node and no edge.
C26_MissingEndpointReported ==
    [][/\ (/\ last'.op = "merge_similar_entities"
           /\ last'.id \in {last'.arg[1], last'.arg[2]}
           /\ \/ Entity(last'.id) \notin nodes
              \/ Entity(IF last'.id = last'.arg[1] THEN last'.arg[2] ELSE last'.arg[1])
                    \notin nodes)
          => (~last'.ok /\ nodes' = nodes /\ edges' = edges)
       /\ (/\ last'.op = "_create_note_relations"
           /\ \E i \in 1..Len(last'.arg) :
                 /\ last'.arg[i].type \in {"category", "event", "note"}
                 /\ \/ Node("Note", last'.id) \notin nodes
                    \/ RelTarget(last'.arg[i]) \notin nodes)
          => (~last'.ok /\ nodes' = nodes /\ edges' = edges)]_vars

\* C28: a merge that reports success does not delete the survivor: the Entity
\* named keep_name exists after the merge if it existed before.
C28_SurvivorKept ==
    [][(/\ last'.op = "merge_similar_entities"
        /\ last'.ok
        /\ Entity(last'.id) \in nodes)
       => Entity(last'.id) \in nodes']_vars

----------------------------------------------------------------------------
(* Entities by name under concurrent callers: save_note and create_relation run
   as tools of concurrent requests.  Each execute_cypher is one auto-committed
   transaction; there is no uniqueness constraint on Entity.name, so MERGE of a
   node is a match followed, when nothing matched, by a create, and a node
   created by a transaction that has not committed is not seen by another.  A
   node here is [label, key, copy]: copy is the caller that created it. *)

Copy(label, key, c) == [label |-> label, key |-> key, copy |-> c]

\* the nodes MATCH (e:Entity {name: $name}) binds
EntityNodes(ns, name) == {n \in ns : n.label = "Entity" /\ n.key = name}

\* the names the statement of the call merges
MergedNames(call) ==
    IF call.ids[1] = "create_relation" THEN {call.ids[2], call.ids[3]} ELSE {call.ids[3]}

\* MERGE (e:Entity {name: $name}) of caller c that matched the nodes seen: the
\* nodes it binds
Bound(seen, name, c) ==
    IF EntityNodes(seen, name) # {} THEN EntityNodes(seen, name)
    ELSE {Copy("Entity", name, c)}

\* MERGE (s)-[:ty]->(t) for every row of bound nodes
RECURSIVE MergeRows(_, _, _)
MergeRows(es, rows, ty) ==
    IF rows = {} THEN es
    ELSE LET r == CHOOSE r \in rows : TRUE
         IN  MergeRows(MergePlain(es, r[1], r[2], ty), rows \ {r}, ty)

\* save_note(content, entities=[name]): CREATE (n:Note) commits; the statement
\* of the entity follows
call_save_note(c, name) ==
    /\ calls[c].pc = "idle"
    /\ Cardinality(Notes(nodes)) < MaxNotes
    /\ LET id == Str(Cardinality(Notes(nodes)) + 1)
       IN  /\ nodes' = nodes \cup {Copy("Note", id, c)}
           /\ calls' = [calls EXCEPT ![c].pc = "match", ![c].ids = <<"save_note", id, name>>]
    /\ UNCHANGED <<fresh, edges, ticks, found, last, jobs, graph_cache, sched>>

\* create_relation(entity1, entity2, relation) up to the statement
call_create_relation(c, entity1, entity2, relation) ==
    /\ calls[c].pc = "idle"
    /\ IF IsAlnum(RelType(relation))
          THEN /\ calls' = [calls EXCEPT
                              ![c].pc = "match",
                              ![c].ids = <<"create_relation", entity1, entity2,
                                           RelType(relation)>>]
               /\ UNCHANGED last
          ELSE /\ last' = Done("create_relation", FALSE, 0, "", <<entity1, entity2, relation>>)
               /\ UNCHANGED calls
    /\ UNCHANGED <<nodes, fresh, edges, ticks, found, jobs, graph_cache, sched>>

\* the statement matches the entities it names among the committed nodes
merge_match(c) ==
    /\ calls[c].pc = "match"
    /\ calls' = [calls EXCEPT
                   ![c].pc = "write",
                   ![c].graph = [nodes |-> UNION {EntityNodes(nodes, name) :
                                                    name \in MergedNames(calls[c])},
                                 edges |-> {}]]
    /\ UNCHANGED <<nodes, fresh, edges, ticks, found, last, jobs, graph_cache, sched>>

\* the statement creates what it did not match, merges the relationship between
\* the nodes it bound, and commits
merge_write(c) ==
    /\ calls[c].pc = "write"
    /\ LET call == calls[c]
           seen == call.graph.nodes
           made == UNION {Bound(seen, name, c) : name \in MergedNames(call)}
       IN  /\ nodes' = nodes \cup made
           /\ IF call.ids[1] = "create_relation"
                 THEN /\ edges' = MergeRows(edges, Bound(seen, call.ids[2], c)
                                                    \X Bound(seen, call.ids[3], c),
                                            call.ids[4])
                      /\ last' = Done("create_relation", TRUE, 0, "",
                                      <<call.ids[2], call.ids[3], call.ids[4]>>)
                 ELSE /\ edges' = MergeRows(edges,
                                            {n \in nodes : n.label = "Note" /\ n.key = call.ids[2]}
                                                \X Bound(seen, call.ids[3], c),
                                            "MENTIONS")
                      /\ last' = Done("save_note", TRUE, 1, call.ids[2], <<call.ids[3]>>)
    /\ calls' = [calls EXCEPT ![c].pc = "idle"]
    /\ UNCHANGED <<fresh, ticks, found, jobs, graph_cache, sched>>

InitEntities == InitMaint

NextEntities ==
    \E c \in Callers :
        \/ call_save_note(c, "a")
        \/ \E relation \in {"related to", "part-of"} : call_create_relation(c, "a", "b", relation)
        \/ merge_match(c)
        \/ merge_write(c)

SpecEntities == InitEntities /\ [][NextEntities]_vars

\* C27: there is at most one Entity node per name, and when create_relation(e1,
\* e2, rel) has returned there is exactly one rel edge from an Entity named e1 to
\* an Entity named e2.
C27_OneEntityPerName ==
    /\ \A name \in EntityNames : Cardinality(EntityNodes(nodes, name)) <= 1
    /\ (last.op = "create_relation" /\ last.ok) =>
          Cardinality({e \in edges : /\ e.type = last.arg[3]
                                     /\ e.src \in EntityNodes(nodes, last.arg[1])
                                     /\ e.dst \in EntityNodes(nodes, last.arg[2])}) = 1

====
